---- MODULE Spec2Model ----
(***************************************************************************)
(* Model of unlicense/frida_exec.py: the Frida-backed process controller   *)
(* (FridaProcessController), the session setup (spawn_and_instrument) and  *)
(* the message dispatcher (_frida_callback).                               *)
(*                                                                         *)
(* Texts that the code parses (hexadecimal addresses) are sequences of     *)
(* one-character strings, so that int(text, 16) is computed, not assumed.  *)
(* Python dicts are functions; a missing key is a value outside DOMAIN.    *)
(***************************************************************************)
EXTENDS Integers, Sequences, FiniteSets, TLC

VARIABLES
    pc,         \* position of spawn_and_instrument (lines 88-107)
    proc,       \* the target process as frida sees it
    session,    \* the frida session of the process
    script,     \* the agent script of the session
    sink,       \* whether _frida_callback is registered for 'message'
    armed,      \* whether setup_oep_tracing has succeeded
    resumes,    \* number of successful frida.resume calls
    setupLog,   \* the frida calls spawn_and_instrument has made, in order
    ident,      \* the controller's identity fields (ProcessController.__init__)
    cache,      \* FridaProcessController._exported_functions_cache
    lastCall,   \* the caller's most recent controller call and how it ended
    snapshot,   \* history: remote result of the last completed export enumeration
    stored,     \* history: mapping stored by the last successful forced refresh
    lastDisp,   \* the most recent message handed to _frida_callback and how it ended
    notified,   \* the calls of notify_oep_reached so far, in order
    decodable   \* history: the (BASE, OEP) texts of the well-formed OEP messages delivered

vars == <<pc, proc, session, script, sink, armed, resumes, setupLog, ident,
          cache, lastCall, snapshot, stored, lastDisp, notified, decodable>>

setupVars == <<pc, proc, session, script, sink, armed, resumes, setupLog, ident, cache>>
ctrlVars == <<lastCall, snapshot, stored>>
dispVars == <<lastDisp, notified, decodable>>

-----------------------------------------------------------------------------
(* Bounds of the model.                                                    *)

\* longest list the remote export enumeration returns
MaxExports == 2
\* most well-formed OEP messages delivered in one run
MaxOep == 2

-----------------------------------------------------------------------------
(* Hexadecimal texts and int(text, 16).                                    *)

LowerDigits == <<"0","1","2","3","4","5","6","7","8","9","a","b","c","d","e","f">>
UpperDigits == <<"0","1","2","3","4","5","6","7","8","9","A","B","C","D","E","F">>

HexChars == {LowerDigits[i] : i \in 1..16} \cup {UpperDigits[i] : i \in 1..16}

DigitOf ==
    [c \in HexChars |-> (CHOOSE i \in 1..16 : LowerDigits[i] = c \/ UpperDigits[i] = c) - 1]

IsHexDigit(c) == c \in HexChars

DigitVal(c) == DigitOf[c]

Drop(s, n) == SubSeq(s, n + 1, Len(s))

RECURSIVE DigitsValue(_)
DigitsValue(s) ==
    IF s = <<>> THEN 0
    ELSE 16 * DigitsValue(SubSeq(s, 1, Len(s) - 1)) + DigitVal(s[Len(s)])

\* int(text, 16): an optional sign, an optional 0x/0X prefix, then one or more
\* hexadecimal digits; anything else raises ValueError (ok = FALSE).  The texts
\* of the model hold no blank and no underscore.
ParseHex(s) ==
    LET signed == Len(s) > 0 /\ s[1] \in {"+", "-"}
        unsigned == IF signed THEN Drop(s, 1) ELSE s
        prefixed == Len(unsigned) >= 2 /\ unsigned[1] = "0" /\ unsigned[2] \in {"x", "X"}
        body == IF prefixed THEN Drop(unsigned, 2) ELSE unsigned
        good == Len(body) > 0 /\ \A i \in 1..Len(body) : IsHexDigit(body[i])
        mag == IF good THEN DigitsValue(body) ELSE 0
    IN  [ok |-> good, val |-> IF signed /\ s[1] = "-" THEN 0 - mag ELSE mag]

Txt1000 == <<"0","x","1","0","0","0">>
TxtBare1000 == <<"1","0","0","0">>
Txt2000 == <<"0","X","2","0","0","0">>
TxtBase == <<"0","x","4","0","0","0","0","0">>
TxtOep == <<"0","x","4","0","1","2","3","4">>
TxtBad == <<"z","z">>

-----------------------------------------------------------------------------
(* spawn_and_instrument.                                                   *)

NoValue == [none |-> TRUE]

\* An Optional[Dict[int, ...]]: None, or a dict (a function on its keys).
EmptyDict == [k \in {} |-> NoValue]
NoCache == [some |-> FALSE, dict |-> EmptyDict]
Some(d) == [some |-> TRUE, dict |-> d]
NoSnapshot == [some |-> FALSE, value |-> <<>>]

NoIdent == [constructed |-> FALSE]

\* The record of a controller call: the remote calls it issued, how the remote
\* call ended (fault), how the call ended for its caller (outcome), its value.
Call(op, issued, fault, outcome, ret) ==
    [op |-> op, force |-> FALSE, had |-> FALSE, issued |-> issued,
     fault |-> fault, outcome |-> outcome, ret |-> ret]

NoCall == Call("none", <<>>, "none", "none", NoValue)

NoDisp == [msg |-> [type |-> "none"], outcome |-> "none", calls |-> <<>>]

Pids == {4242}
ExeName == "packed.exe"
Architectures == {"ia32", "x64"}
PointerSizes == {4, 8}
PageSizes == {4096}
ModuleRanges == {<<[base |-> 4194304, size |-> 4096, protection |-> "r-x"]>>}

\* The frida calls of spawn_and_instrument, in program order.
StepOrder == <<"spawn", "attach", "create_script", "on_message", "load",
               "get_architecture", "get_pointer_size", "get_page_size",
               "enumerate_module_ranges", "setup_oep_tracing", "resume">>

\* No statement of spawn_and_instrument is inside a try: the exception of a
\* failed call leaves the function at once.
AfterStepSwallow(ok, next) == next

AfterStep(ok, next) == IF ok THEN next ELSE "failed"

Init ==
    /\ pc = "start"
    /\ proc = "none"
    /\ session = "none"
    /\ script = "none"
    /\ sink = FALSE
    /\ armed = FALSE
    /\ resumes = 0
    /\ setupLog = <<>>
    /\ ident = NoIdent
    /\ cache = NoCache
    /\ lastCall = NoCall
    /\ snapshot = NoSnapshot
    /\ stored = NoCache
    /\ lastDisp = NoDisp
    /\ notified = <<>>
    /\ decodable = <<>>

\* line 92: pid = frida.spawn((str(exe_path), ))
Spawn ==
    /\ pc = "start"
    /\ \E ok \in BOOLEAN :
        /\ pc' = AfterStep(ok, "spawned")
        /\ proc' = IF ok THEN "suspended" ELSE proc
    /\ setupLog' = Append(setupLog, "spawn")
    /\ UNCHANGED <<session, script, sink, armed, resumes, ident, cache>>
    /\ UNCHANGED <<ctrlVars, dispVars>>

\* line 93: session = frida.attach(pid)
Attach ==
    /\ pc = "spawned"
    /\ \E ok \in BOOLEAN :
        /\ pc' = AfterStep(ok, "attached")
        /\ session' = IF ok THEN "attached" ELSE session
    /\ setupLog' = Append(setupLog, "attach")
    /\ UNCHANGED <<proc, script, sink, armed, resumes, ident, cache>>
    /\ UNCHANGED <<ctrlVars, dispVars>>

\* lines 94-95: read the agent resource, session.create_script(frida_js)
CreateScript ==
    /\ pc = "attached"
    /\ \E ok \in BOOLEAN :
        /\ pc' = AfterStep(ok, "script_created")
        /\ script' = IF ok THEN "created" ELSE script
    /\ setupLog' = Append(setupLog, "create_script")
    /\ UNCHANGED <<proc, session, sink, armed, resumes, ident, cache>>
    /\ UNCHANGED <<ctrlVars, dispVars>>

\* lines 96-98: script.on('message', partial(_frida_callback, notify_oep_reached))
RegisterSink ==
    /\ pc = "script_created"
    /\ \E ok \in BOOLEAN :
        /\ pc' = AfterStep(ok, "sink_registered")
        /\ sink' = IF ok THEN TRUE ELSE sink
    /\ setupLog' = Append(setupLog, "on_message")
    /\ UNCHANGED <<proc, session, script, armed, resumes, ident, cache>>
    /\ UNCHANGED <<ctrlVars, dispVars>>

\* line 99: script.load()
LoadScriptFirst ==
    /\ pc = "script_created"
    /\ script = "created"
    /\ \E ok \in BOOLEAN :
        /\ pc' = AfterStep(ok, pc)
        /\ script' = IF ok THEN "loaded" ELSE script
    /\ setupLog' = Append(setupLog, "load")
    /\ UNCHANGED <<proc, session, sink, armed, resumes, ident, cache>>
    /\ UNCHANGED <<ctrlVars, dispVars>>

LoadScript ==
    /\ pc = "sink_registered"
    /\ \E ok \in BOOLEAN :
        /\ pc' = AfterStep(ok, "loaded")
        /\ script' = IF ok THEN "loaded" ELSE script
    /\ setupLog' = Append(setupLog, "load")
    /\ UNCHANGED <<proc, session, sink, armed, resumes, ident, cache>>
    /\ UNCHANGED <<ctrlVars, dispVars>>

\* lines 101-103 and 17-28: FridaProcessController(pid, main_module_name, session,
\* script).  The four identity queries are the arguments of super().__init__, made
\* in this order; made is how many of them were issued (the last one failed when
\* made < 4 or ~ok).
Construct ==
    /\ pc = "loaded"
    /\ \E made \in 1..4, ok \in BOOLEAN, pid \in Pids, arch \in Architectures,
          ptr \in PointerSizes, page \in PageSizes, ranges \in ModuleRanges :
        /\ (made < 4 => ~ok)
        /\ pc' = AfterStep(ok, "constructed")
        /\ setupLog' = setupLog \o SubSeq(StepOrder, 6, 5 + made)
        /\ ident' = IF ok
                    THEN [constructed |-> TRUE, pid |-> pid, main_module_name |-> ExeName,
                          architecture |-> arch, pointer_size |-> ptr,
                          page_size |-> page, main_module_ranges |-> ranges]
                    ELSE ident
        /\ cache' = NoCache
    /\ UNCHANGED <<proc, session, script, sink, armed, resumes>>
    /\ UNCHANGED <<ctrlVars, dispVars>>

\* line 104: frida_rpc.setup_oep_tracing(exe_path.name)
ArmTracing ==
    /\ pc = "constructed"
    /\ \E ok \in BOOLEAN :
        /\ pc' = AfterStep(ok, "armed")
        /\ armed' = IF ok THEN TRUE ELSE armed
    /\ setupLog' = Append(setupLog, "setup_oep_tracing")
    /\ UNCHANGED <<proc, session, script, sink, resumes, ident, cache>>
    /\ UNCHANGED <<ctrlVars, dispVars>>

\* The process resumed as soon as the controller exists, before the tracing
\* is armed.
ResumeBeforeArming ==
    /\ pc = "constructed"
    /\ resumes = 0
    /\ proc' = "running"
    /\ resumes' = resumes + 1
    /\ setupLog' = Append(setupLog, "resume")
    /\ UNCHANGED <<pc, session, script, sink, armed, ident, cache>>
    /\ UNCHANGED <<ctrlVars, dispVars>>

\* line 105: frida.resume(pid)
Resume ==
    /\ pc = "armed"
    /\ \E ok \in BOOLEAN :
        /\ pc' = AfterStep(ok, "resumed")
        /\ proc' = IF ok THEN "running" ELSE proc
        /\ resumes' = IF ok THEN resumes + 1 ELSE resumes
    /\ setupLog' = Append(setupLog, "resume")
    /\ UNCHANGED <<session, script, sink, armed, ident, cache>>
    /\ UNCHANGED <<ctrlVars, dispVars>>

\* line 107: return process_controller
ReturnController ==
    /\ pc = "resumed"
    /\ pc' = "returned"
    /\ UNCHANGED <<proc, session, script, sink, armed, resumes, setupLog, ident, cache>>
    /\ UNCHANGED <<ctrlVars, dispVars>>

Setup ==
    \/ Spawn
    \/ Attach
    \/ CreateScript
    \/ RegisterSink
    \/ LoadScript
    \/ Construct
    \/ ArmTracing
    \/ Resume
    \/ ReturnController

-----------------------------------------------------------------------------
(* FridaProcessController: the remote surface and the controller calls.    *)

\* A remote call ends with a value, with frida.core.RPCException (the agent's
\* function reported a fault) or with another frida exception (the transport).
RemoteFaults == {"RPCException", "OtherError"}


\* lines 30-67: the call is a bare statement, so what the remote raises is what
\* the caller gets.
PropagateTranslated(fault) == "RemoteOperationError"

Propagate(fault) == fault

\* lines 72-74 and 79-81: except frida.core.RPCException: raise Exception from e.
\* RemoteOperationError names that generic Exception; other exceptions pass.
TranslateNothing(fault) == fault

Translate(fault) == IF fault = "RPCException" THEN "RemoteOperationError" ELSE fault

Entries ==
    { [address |-> Txt1000, name |-> "f"],
      [address |-> TxtBare1000, name |-> "g"],
      [address |-> Txt2000, name |-> "h"],
      [address |-> TxtBad, name |-> "k"] }

ExportLists == UNION {[1..n -> Entries] : n \in 0..MaxExports}

\* int(e["address"], 16) of every entry the remote can return
ParsedAddress == [e \in Entries |-> ParseHex(e.address)]

AllParse(value) == \A i \in 1..Len(value) : ParsedAddress[value[i]].ok

\* The key taken from the text after its first two characters, as if every
\* address began with 0x.
KeyAfterPrefix(e) == ParseHex(Drop(e.address, 2)).val

Key(e) == ParsedAddress[e].val

\* line 56: {int(e["address"], 16): e for e in value}, a later entry replacing
\* an earlier one under the same key.
RECURSIVE BuildDictOnto(_, _)
BuildDictOnto(d, value) ==
    IF value = <<>> THEN d
    ELSE LET e == Head(value)
             k == Key(e)
         IN  BuildDictOnto([x \in DOMAIN d \cup {k} |-> IF x = k THEN e ELSE d[x]],
                           Tail(value))

\* A mapping that keeps the first entry of each address.
BuildDictFirstKept(value) ==
    LET firstAt(k) == CHOOSE i \in DOMAIN value :
                         /\ Key(value[i]) = k
                         /\ \A j \in DOMAIN value : Key(value[j]) = k => i <= j
    IN  [k \in {Key(value[i]) : i \in DOMAIN value} |-> value[firstAt(k)]]

BuildDictMerged(value) ==
    BuildDictOnto(cache.dict, value)

BuildDict(value) == BuildDictOnto(EmptyDict, value)

\* lines 30-81: an operation calls its remote function in a plain statement, in
\* no loop and with no handler that calls again: once, however the call ends.
IssuedWithRetry(rpc, fault) == IF fault = "none" THEN <<rpc>> ELSE <<rpc, rpc>>

Issued(rpc, fault) == <<rpc>>

\* line 53: self._exported_functions_cache is None or update_cache
NeedsQueryAlways(c, update_cache) == TRUE

NeedsQueryWhenAbsent(c, update_cache) == ~c.some

NeedsQuery(c, update_cache) == ~c.some \/ update_cache

\* The record of a forwarding call: remote is the value its remote call gave.
Forwarded(op, issued, remote, ret) ==
    [op |-> op, force |-> FALSE, had |-> FALSE, issued |-> issued,
     fault |-> "none", outcome |-> "ok", ret |-> ret, remote |-> remote]

\* A forwarding call that answers a repeated call from its previous answer.
ForwardMemoised(op, values) ==
    /\ pc = "returned"
    /\ \/ \E v \in values :
            lastCall' = IF lastCall.op = op /\ lastCall.outcome = "ok"
                        THEN Forwarded(op, <<>>, lastCall.remote, lastCall.ret)
                        ELSE Forwarded(op, Issued(op, "none"), v, v)
       \/ \E fault \in RemoteFaults :
            lastCall' = Call(op, Issued(op, fault), fault, Propagate(fault), NoValue)
    /\ UNCHANGED <<setupVars, snapshot, stored, dispVars>>

\* A call that only forwards to the remote function of the same name and returns
\* its value.
Forward(op, values) ==
    /\ pc = "returned"
    /\ \/ \E v \in values : lastCall' = Forwarded(op, Issued(op, "none"), v, v)
       \/ \E fault \in RemoteFaults :
            lastCall' = Call(op, Issued(op, fault), fault, Propagate(fault), NoValue)
    /\ UNCHANGED <<setupVars, snapshot, stored, dispVars>>

Addresses == {4194304, 4198400}
Modules == {[name |-> ExeName, base |-> 4194304, size |-> 8192],
            [name |-> "kernel32.dll", base |-> 4198400, size |-> 4096]}
Ranges == {[base |-> 4194304, size |-> 4096, protection |-> "r-x"],
           [base |-> 4198400, size |-> 4096, protection |-> "rw-"]}
None == [none |-> TRUE]

\* lines 30-33
find_module_by_address ==
    \E address \in Addresses : Forward("find_module_by_address", Modules \cup {None})

\* lines 35-38
find_range_by_address ==
    \E address \in Addresses : Forward("find_range_by_address", Ranges \cup {None})

\* lines 40-42
enumerate_modules ==
    Forward("enumerate_modules", {<<ExeName>>, <<ExeName, "kernel32.dll">>})

\* An enumeration that also stores its result as the main module's ranges.
enumerate_module_ranges_storing ==
    /\ pc = "returned"
    /\ \E module_name \in {ExeName} :
        \/ \E v \in {<<>>} \cup {<<r>> : r \in Ranges} :
             /\ lastCall' = Forwarded("enumerate_module_ranges",
                                      Issued("enumerate_module_ranges", "none"), v, v)
             /\ ident' = [ident EXCEPT !.main_module_ranges = v]
        \/ \E fault \in RemoteFaults :
             /\ lastCall' = Call("enumerate_module_ranges",
                                 Issued("enumerate_module_ranges", fault),
                                 fault, Propagate(fault), NoValue)
             /\ UNCHANGED ident
    /\ UNCHANGED <<pc, proc, session, script, sink, armed, resumes, setupLog, cache>>
    /\ UNCHANGED <<snapshot, stored, dispVars>>

\* lines 44-48
enumerate_module_ranges ==
    \E module_name \in {ExeName} :
        Forward("enumerate_module_ranges", {<<>>} \cup {<<r>> : r \in Ranges})

\* lines 65-67
query_memory_protection ==
    \E address \in Addresses : Forward("query_memory_protection", {"r-x", "rw-"})

\* An enumeration that drops the cache before it queries the remote.
enumerate_exported_functions_dropping ==
    /\ pc = "returned"
    /\ \E update_cache \in BOOLEAN :
        IF NeedsQuery(cache, update_cache)
        THEN \/ \E value \in ExportLists :
                  LET parsed == AllParse(value)
                      exports_dict == BuildDict(value)
                  IN  /\ cache' = IF parsed THEN Some(exports_dict) ELSE NoCache
                      /\ lastCall' =
                           [op |-> "enumerate_exported_functions",
                            force |-> update_cache,
                            had |-> cache.some,
                            issued |-> Issued("enumerate_exported_functions", "none"),
                            fault |-> "none",
                            outcome |-> IF parsed THEN "ok" ELSE "ValueError",
                            ret |-> IF parsed THEN exports_dict ELSE NoValue]
                      /\ snapshot' = IF parsed THEN [some |-> TRUE, value |-> value]
                                     ELSE snapshot
                      /\ stored' = IF parsed /\ update_cache THEN Some(exports_dict)
                                   ELSE stored
             \/ \E fault \in RemoteFaults :
                  /\ lastCall' =
                       [op |-> "enumerate_exported_functions",
                        force |-> update_cache,
                        had |-> cache.some,
                        issued |-> Issued("enumerate_exported_functions", fault),
                        fault |-> fault,
                        outcome |-> Propagate(fault),
                        ret |-> NoValue]
                  /\ cache' = NoCache
                  /\ UNCHANGED <<snapshot, stored>>
        ELSE /\ lastCall' =
                  [op |-> "enumerate_exported_functions", force |-> update_cache,
                   had |-> TRUE, issued |-> <<>>, fault |-> "none",
                   outcome |-> "ok", ret |-> cache.dict]
             /\ UNCHANGED <<cache, snapshot, stored>>
    /\ UNCHANGED <<pc, proc, session, script, sink, armed, resumes, setupLog, ident>>
    /\ UNCHANGED dispVars

\* lines 50-59
enumerate_exported_functions ==
    /\ pc = "returned"
    /\ \E update_cache \in BOOLEAN :
        IF NeedsQuery(cache, update_cache)
        THEN \/ \E value \in ExportLists :
                  LET parsed == AllParse(value)
                      exports_dict == BuildDict(value)
                  IN  /\ cache' = IF parsed THEN Some(exports_dict) ELSE cache
                      /\ lastCall' =
                           [op |-> "enumerate_exported_functions",
                            force |-> update_cache,
                            had |-> cache.some,
                            issued |-> Issued("enumerate_exported_functions", "none"),
                            fault |-> "none",
                            outcome |-> IF parsed THEN "ok" ELSE "ValueError",
                            ret |-> IF parsed THEN exports_dict ELSE NoValue]
                      /\ snapshot' = IF parsed THEN [some |-> TRUE, value |-> value]
                                     ELSE snapshot
                      /\ stored' = IF parsed /\ update_cache THEN Some(exports_dict)
                                   ELSE stored
             \/ \E fault \in RemoteFaults :
                  /\ lastCall' =
                       [op |-> "enumerate_exported_functions",
                        force |-> update_cache,
                        had |-> cache.some,
                        issued |-> Issued("enumerate_exported_functions", fault),
                        fault |-> fault,
                        outcome |-> Propagate(fault),
                        ret |-> NoValue]
                  /\ UNCHANGED <<cache, snapshot, stored>>
        ELSE /\ lastCall' =
                  [op |-> "enumerate_exported_functions", force |-> update_cache,
                   had |-> TRUE, issued |-> <<>>, fault |-> "none",
                   outcome |-> "ok", ret |-> cache.dict]
             /\ UNCHANGED <<cache, snapshot, stored>>
    /\ UNCHANGED <<pc, proc, session, script, sink, armed, resumes, setupLog, ident>>
    /\ UNCHANGED dispVars

\* lines 61-63: the remote returns the address as text; int(buffer_addr, 16)
allocate_process_memory ==
    /\ pc = "returned"
    /\ \E size \in {4096}, near \in Addresses :
        \/ \E buffer_addr \in {Txt1000, Txt2000, TxtBad} :
             LET addr == ParseHex(buffer_addr)
             IN  lastCall' = Call("allocate_process_memory",
                                  Issued("allocate_process_memory", "none"), "none",
                                  IF addr.ok THEN "ok" ELSE "ValueError",
                                  IF addr.ok THEN addr.val ELSE NoValue)
        \/ \E fault \in RemoteFaults :
             lastCall' = Call("allocate_process_memory",
                              Issued("allocate_process_memory", fault),
                              fault, Propagate(fault), NoValue)
    /\ UNCHANGED <<setupVars, snapshot, stored, dispVars>>

\* lines 69-74
read_process_memory ==
    /\ pc = "returned"
    /\ \E address \in Addresses, size \in {2} :
        \/ \E v \in {<<77, 90>>, <<0, 255>>} :
             lastCall' = Call("read_process_memory",
                              Issued("read_process_memory", "none"), "none", "ok", v)
        \/ \E fault \in RemoteFaults :
             lastCall' = Call("read_process_memory",
                              Issued("read_process_memory", fault),
                              fault, Translate(fault), NoValue)
    /\ UNCHANGED <<setupVars, snapshot, stored, dispVars>>

\* lines 76-81
write_process_memory ==
    /\ pc = "returned"
    /\ \E address \in Addresses, data \in {<<144, 144>>} :
        \/ lastCall' = Call("write_process_memory",
                            Issued("write_process_memory", "none"), "none", "ok", None)
        \/ \E fault \in RemoteFaults :
             lastCall' = Call("write_process_memory",
                              Issued("write_process_memory", fault),
                              fault, Translate(fault), NoValue)
    /\ UNCHANGED <<setupVars, snapshot, stored, dispVars>>

\* The two calls of terminate_process in the other order.
terminate_process_detach_first ==
    /\ pc = "returned"
    /\ \/ /\ lastCall' = Call("terminate_process", <<"detach">>, "OtherError",
                              Propagate("OtherError"), NoValue)
          /\ UNCHANGED <<pc, proc, session>>
       \/ /\ session' = "detached"
          /\ pc' = "terminated"
          /\ \/ /\ proc' = "killed"
                /\ lastCall' = Call("terminate_process", <<"detach", "kill">>,
                                    "none", "ok", None)
             \/ /\ lastCall' = Call("terminate_process", <<"detach", "kill">>,
                                    "OtherError", Propagate("OtherError"), NoValue)
                /\ UNCHANGED proc
    /\ UNCHANGED <<script, sink, armed, resumes, setupLog, ident, cache>>
    /\ UNCHANGED <<snapshot, stored, dispVars>>

\* lines 83-85: frida.kill(self.pid), then self._frida_session.detach().  It is
\* the last call of a controller whose process it has killed.
terminate_process ==
    /\ pc = "returned"
    /\ \/ /\ lastCall' = Call("terminate_process", <<"kill">>, "OtherError",
                              Propagate("OtherError"), NoValue)
          /\ UNCHANGED <<pc, proc, session>>
       \/ /\ proc' = "killed"
          /\ pc' = "terminated"
          /\ \/ /\ session' = "detached"
                /\ lastCall' = Call("terminate_process", <<"kill", "detach">>,
                                    "none", "ok", None)
             \/ /\ lastCall' = Call("terminate_process", <<"kill", "detach">>,
                                    "OtherError", Propagate("OtherError"), NoValue)
                /\ UNCHANGED session
    /\ UNCHANGED <<script, sink, armed, resumes, setupLog, ident, cache>>
    /\ UNCHANGED <<snapshot, stored, dispVars>>

Controller ==
    \/ find_module_by_address
    \/ find_range_by_address
    \/ enumerate_modules
    \/ enumerate_module_ranges
    \/ enumerate_exported_functions
    \/ allocate_process_memory
    \/ query_memory_protection
    \/ read_process_memory
    \/ write_process_memory
    \/ terminate_process

-----------------------------------------------------------------------------
(* _frida_callback: the dispatcher of the agent's messages.                *)

Has(d, key) == key \in DOMAIN d

\* line 120: payload.get('event', '')
EventOf(payload) == IF Has(payload, "event") THEN payload.event ELSE ""

\* lines 124-125: notify_oep_reached(int(payload['BASE'], 16), int(payload['OEP'], 16))
NotifyArgsSwapped(base, oep) == <<oep, base>>

NotifyArgs(base, oep) == <<base, oep>>

Ended(outcome, calls) == [outcome |-> outcome, calls |-> calls]

\* A decoding that puts 0 for a field that is missing or does not parse.
OepReachedDefaulting(payload) ==
    LET field(present, text) == IF present /\ ParseHex(text).ok THEN ParseHex(text).val ELSE 0
        base == field(Has(payload, "BASE"), IF Has(payload, "BASE") THEN payload.BASE ELSE <<>>)
        oep == field(Has(payload, "OEP"), IF Has(payload, "OEP") THEN payload.OEP ELSE <<>>)
    IN  Ended("returned", <<NotifyArgs(base, oep)>>)

\* lines 118-126, for a payload whose event is 'oep_reached': both arguments are
\* evaluated, BASE first, before the callback is called.
OepReached(payload) ==
    IF ~Has(payload, "BASE") THEN Ended("KeyError", <<>>)
    ELSE IF ~ParseHex(payload.BASE).ok THEN Ended("ValueError", <<>>)
    ELSE IF ~Has(payload, "OEP") THEN Ended("KeyError", <<>>)
    ELSE IF ~ParseHex(payload.OEP).ok THEN Ended("ValueError", <<>>)
    ELSE Ended("returned",
               <<NotifyArgs(ParseHex(payload.BASE).val, ParseHex(payload.OEP).val)>>)

\* lines 113-116: LOG.error(message); LOG.error(message['stack']); return
ErrorMessage(message) ==
    IF Has(message, "stack") THEN Ended("returned", <<>>) ELSE Ended("KeyError", <<>>)

\* line 128: raise NotImplementedError('Unknown message received')
UnknownMessageIgnored == Ended("returned", <<>>)

UnknownMessage == Ended("NotImplementedError", <<>>)

\* lines 110-128: how the handling of message ends, and the calls of
\* notify_oep_reached it makes.
frida_callback(message) ==
    IF message.type = "error" THEN ErrorMessage(message)
    ELSE IF message.type = "send"
         THEN IF ~Has(message, "payload") THEN Ended("KeyError", <<>>)
              ELSE IF EventOf(message.payload) = "oep_reached"
                   THEN OepReached(message.payload)
                   ELSE UnknownMessage
         ELSE UnknownMessage

Oep(base, oep) ==
    [type |-> "send", payload |-> [event |-> "oep_reached", BASE |-> base, OEP |-> oep]]

\* The messages the agent's transport delivers in the model.
Messages ==
    << [type |-> "error", description |-> "boom", stack |-> "Error: boom at agent.js:1"],
       [type |-> "error", description |-> "boom"],
       Oep(TxtBase, TxtOep),
       Oep(Txt1000, Txt2000),
       [type |-> "send", payload |-> [event |-> "oep_reached", BASE |-> TxtBase]],
       [type |-> "send", payload |-> [event |-> "oep_reached", OEP |-> TxtOep]],
       Oep(TxtBad, TxtOep),
       Oep(TxtBase, TxtBad),
       [type |-> "send", payload |-> [event |-> "unknown"]],
       [type |-> "send", payload |-> [data |-> "x"]],
       [type |-> "send"],
       [type |-> "log", payload |-> [event |-> "oep_reached"]] >>

\* The hexadecimal texts of the model and the integers they denote.
HexTable ==
    { [text |-> Txt1000, val |-> 4096],
      [text |-> TxtBare1000, val |-> 4096],
      [text |-> Txt2000, val |-> 8192],
      [text |-> TxtBase, val |-> 4194304],
      [text |-> TxtOep, val |-> 4198964] }

IsHexText(t) == \E e \in HexTable : e.text = t

HexValue(t) == (CHOOSE e \in HexTable : e.text = t).val

\* A message of kind "send" whose payload event is "oep_reached" with
\* hexadecimal BASE and OEP fields.
WellFormedOep(m) ==
    /\ m.type = "send"
    /\ Has(m, "payload")
    /\ Has(m.payload, "event")
    /\ m.payload.event = "oep_reached"
    /\ Has(m.payload, "BASE")
    /\ Has(m.payload, "OEP")
    /\ IsHexText(m.payload.BASE)
    /\ IsHexText(m.payload.OEP)

\* A message that reports the original entry point, whatever else it holds.
IsOepEvent(m) ==
    /\ m.type = "send"
    /\ Has(m, "payload")
    /\ EventOf(m.payload) = "oep_reached"

\* The agent reports the original entry point from code that the target runs,
\* so only while the target is running; its other messages come at any time.
AgentMayEmit(m) == IsOepEvent(m) => proc = "running"

\* A handler that dumps at once, with a remote call, instead of deferring.
DeliverAndDump ==
    /\ sink
    /\ script = "loaded"
    /\ \E i \in 1..Len(Messages) :
        LET message == Messages[i]
            end == frida_callback(message)
        IN  /\ AgentMayEmit(message)
            /\ WellFormedOep(message) => Len(decodable) < MaxOep
            /\ lastDisp' = [msg |-> message, outcome |-> end.outcome, calls |-> end.calls]
            /\ notified' = notified \o end.calls
            /\ decodable' = IF WellFormedOep(message)
                            THEN Append(decodable, <<message.payload.BASE, message.payload.OEP>>)
                            ELSE decodable
            /\ lastCall' = IF end.calls = <<>> THEN lastCall
                           ELSE Call("enumerate_modules", <<"enumerate_modules">>,
                                     "none", "ok", NoValue)
    /\ UNCHANGED <<setupVars, snapshot, stored>>

\* The transport hands one message of the loaded agent to the registered sink
\* (lines 96-99), which runs _frida_callback on it.
Deliver ==
    /\ sink
    /\ script = "loaded"
    /\ \E i \in 1..Len(Messages) :
        LET message == Messages[i]
            end == frida_callback(message)
        IN  /\ AgentMayEmit(message)
            /\ WellFormedOep(message) => Len(decodable) < MaxOep
            /\ lastDisp' = [msg |-> message, outcome |-> end.outcome, calls |-> end.calls]
            /\ notified' = notified \o end.calls
            /\ decodable' = IF WellFormedOep(message)
                            THEN Append(decodable, <<message.payload.BASE, message.payload.OEP>>)
                            ELSE decodable
    /\ UNCHANGED <<setupVars, ctrlVars>>

-----------------------------------------------------------------------------
(* Specifications.  The dispatcher reads and writes none of the            *)
(* controller's variables and the controller none of the dispatcher's, so  *)
(* each is checked with the session setup that both follow.                *)

NextCtrl == Setup \/ Controller

SpecCtrl == Init /\ [][NextCtrl]_vars

NextDisp == Setup \/ Deliver

SpecDisp == Init /\ [][NextDisp]_vars

-----------------------------------------------------------------------------
(* Properties.                                                             *)

EnumOp == "enumerate_exported_functions"

\* The mapping an export list denotes, stated without the code's loop: the keys
\* are the addresses the entries' texts denote, and a key's entry is the last
\* entry of the list with that address.
ExpectedMapping(list) ==
    LET keyAt(i) == HexValue(list[i].address)
        lastAt(k) == CHOOSE i \in DOMAIN list :
                        /\ keyAt(i) = k
                        /\ \A j \in DOMAIN list : keyAt(j) = k => j <= i
    IN  [k \in {keyAt(i) : i \in DOMAIN list} |-> list[lastAt(k)]]

\* C1: once a forced refresh has succeeded, a later call without force_refresh
\* returns the mapping that refresh stored, issues no remote enumeration and
\* leaves the cache as it is.
C1_CacheIdempotence ==
    (lastCall.op = EnumOp /\ ~lastCall.force /\ stored.some)
        => /\ lastCall.outcome = "ok"
           /\ lastCall.issued = <<>>
           /\ lastCall.ret = stored.dict
           /\ cache = stored

C1_Witness ==
    /\ lastCall.op = EnumOp
    /\ ~lastCall.force
    /\ stored.some
    /\ Cardinality(DOMAIN stored.dict) = 2

\* C2: a call with force_refresh issues exactly one remote enumeration, whether or
\* not the cache was populated, and when it returns, the cache and the value
\* returned are the mapping of that enumeration's result.
C2_ForcedRefreshRequeries ==
    (lastCall.op = EnumOp /\ lastCall.force)
        => /\ lastCall.issued = <<EnumOp>>
           /\ lastCall.outcome = "ok"
                => /\ snapshot.some
                   /\ lastCall.ret = ExpectedMapping(snapshot.value)
                   /\ cache = Some(lastCall.ret)

C2_Witness ==
    /\ lastCall.op = EnumOp
    /\ lastCall.force
    /\ lastCall.had
    /\ lastCall.outcome = "ok"
    /\ Len(snapshot.value) = 2
    /\ Cardinality(DOMAIN cache.dict) = 1

\* C3: the cache is absent while no enumeration has completed, and otherwise it
\* is the whole mapping of the result of the last completed enumeration.
C3_CacheIsSnapshot ==
    IF snapshot.some
    THEN cache = Some(ExpectedMapping(snapshot.value))
    ELSE cache = NoCache

C3_Witness ==
    /\ lastCall.op = EnumOp
    /\ lastCall.had
    /\ lastCall.outcome = "ok"
    /\ lastCall.issued = <<EnumOp>>
    /\ snapshot.value = <<>>
    /\ cache = Some(EmptyDict)

\* C4: the calls of the OEP callback are, in delivery order, the pairs
\* (BASE, OEP) of the well-formed OEP messages delivered, each parsed base 16,
\* and the handling of such a message returns after exactly one call.
C4_OepDecoding ==
    /\ Len(notified) = Len(decodable)
    /\ \A i \in 1..Len(decodable) :
          notified[i] = <<HexValue(decodable[i][1]), HexValue(decodable[i][2])>>
    /\ WellFormedOep(lastDisp.msg)
          => /\ lastDisp.outcome = "returned"
             /\ Len(lastDisp.calls) = 1

C4_Witness == notified = << <<4194304, 4198964>>, <<4096, 8192>> >>

\* C5: the handling of a message of kind "error", with or without a stack
\* field, returns without a call of the OEP callback.
C5_ErrorsSwallowed ==
    lastDisp.msg.type = "error"
        => /\ lastDisp.outcome = "returned"
           /\ lastDisp.calls = <<>>

\* The shapes C6 names: an unknown type, a "send" whose payload event is another
\* string, a "send" whose payload has no event field.
UnknownShape(m) ==
    \/ m.type \notin {"error", "send", "none"}
    \/ /\ m.type = "send"
       /\ Has(m, "payload")
       /\ (Has(m.payload, "event") => m.payload.event # "oep_reached")

MemoryOps == {"read_process_memory", "write_process_memory"}

\* C7: a read or write whose remote call reports a fault fails with the generic
\* exception (RemoteOperationError) and changes neither the cache nor the
\* identity.
C7_FailedAccessLeavesState ==
    [][(lastCall'.op \in MemoryOps /\ lastCall'.fault = "RPCException")
          => /\ lastCall'.outcome = "RemoteOperationError"
             /\ cache' = cache
             /\ ident' = ident]_vars

C7_Witness ==
    /\ lastCall.op = "read_process_memory"
    /\ lastCall.fault = "RPCException"
    /\ lastCall.outcome = "RemoteOperationError"
    /\ cache.some
    /\ Cardinality(DOMAIN cache.dict) = 2
    /\ ident.constructed

RemoteOps ==
    {"find_module_by_address", "find_range_by_address", "enumerate_modules",
     "enumerate_module_ranges", EnumOp, "allocate_process_memory",
     "query_memory_protection", "read_process_memory", "write_process_memory"}

\* C8 as stated: whatever the remote call of a controller operation raises
\* reaches the caller as RemoteOperationError.
C8_SingleErrorKind ==
    (lastCall.op \in RemoteOps /\ lastCall.fault # "none")
        => lastCall.outcome = "RemoteOperationError"

\* C8 amended: only read_process_memory and write_process_memory translate, and
\* only an RPCException; every other exception of a remote call reaches the
\* caller as it was raised.
C8_OnlyMemoryOpsTranslate ==
    (lastCall.op \in RemoteOps /\ lastCall.fault # "none")
        => lastCall.outcome =
              IF lastCall.op \in MemoryOps /\ lastCall.fault = "RPCException"
              THEN "RemoteOperationError"
              ELSE lastCall.fault

C8_Witness ==
    /\ lastCall.op = "query_memory_protection"
    /\ lastCall.fault = "RPCException"
    /\ lastCall.outcome = "RPCException"

\* The session state of section 4.2, read off the process, session and agent.
SessionState ==
    IF proc = "none" THEN 0                \* NOT_STARTED
    ELSE IF session = "none" THEN 1        \* SPAWNED
    ELSE IF script # "loaded" THEN 2       \* ATTACHED
    ELSE IF ~armed THEN 3                  \* AGENT_LOADED
    ELSE IF proc = "suspended" THEN 4      \* TRACING_ARMED
    ELSE 5                                 \* RUNNING

IsPrefix(s, t) == Len(s) <= Len(t) /\ SubSeq(t, 1, Len(s)) = s

\* C9: the session state only stays or moves to the next state; the frida calls
\* are made in program order, each at most once; the sink is registered before
\* the agent is loaded, the identity is queried after it, tracing is armed
\* before the one resume, which is the last call before the return.
C9_SetupIsLinear ==
    /\ [](/\ IsPrefix(setupLog, StepOrder)
          /\ (script = "loaded" => sink)
          /\ (ident.constructed => script = "loaded")
          /\ (resumes > 0 => armed)
          /\ resumes <= 1
          /\ (pc = "returned"
                => /\ SessionState = 5
                   /\ resumes = 1
                   /\ setupLog[Len(setupLog)] = "resume"))
    /\ [][SessionState' \in {SessionState, SessionState + 1}]_vars

C9_Witness ==
    /\ pc = "returned"
    /\ SessionState = 5
    /\ setupLog = StepOrder

FullySetUp ==
    /\ proc = "running"
    /\ session = "attached"
    /\ script = "loaded"
    /\ sink
    /\ ident.constructed
    /\ armed
    /\ resumes = 1
    /\ setupLog = StepOrder

\* C10: a controller is returned only when every step has succeeded, and a
\* failed step ends the operation: no later step runs and nothing is returned.
C10_NoPartialSuccess ==
    /\ [](pc = "returned" => FullySetUp)
    /\ [](pc = "failed" => ~FullySetUp)
    /\ [][pc = "failed" => (pc' = "failed" /\ setupLog' = setupLog)]_vars

C10_Witness ==
    /\ pc = "failed"
    /\ setupLog = StepOrder
    /\ armed
    /\ ident.constructed
    /\ proc = "suspended"

IsInjective(s) == \A i, j \in 1..Len(s) : s[i] = s[j] => i = j

\* C11: no remote call is issued twice by one invocation of a controller
\* operation, whether it failed or not, and no frida call twice by
\* spawn_and_instrument; a failed invocation has issued its call once.
C11_NoAutomaticRetry ==
    /\ IsInjective(lastCall.issued)
    /\ IsInjective(setupLog)
    /\ (lastCall.op \in RemoteOps /\ lastCall.fault # "none")
          => lastCall.issued = <<lastCall.op>>

C11_Witness ==
    /\ lastCall.op = "write_process_memory"
    /\ lastCall.fault = "RPCException"
    /\ lastCall.issued = <<"write_process_memory">>
    /\ Len(setupLog) = 11

\* C12: a step in which the dispatcher handles a message changes nothing of the
\* session, the process, the controller or its cache and records no remote
\* call; it calls the OEP callback at most once.
C12_NotifyAndDefer ==
    [][(lastDisp' # lastDisp \/ notified' # notified)
          => /\ UNCHANGED <<setupVars, ctrlVars>>
             /\ Len(lastDisp'.calls) <= 1
             /\ notified' = notified \o lastDisp'.calls]_vars

C12_Witness ==
    /\ Len(lastDisp.calls) = 1
    /\ Len(notified) = 2
    /\ lastCall = NoCall

\* C13: terminate_process requests the kill first and the detach second, a
\* call that returns leaves the process killed and the session detached, and
\* the session is never detached while the process has not been killed.
C13_KillThenDetach ==
    /\ lastCall.op = "terminate_process"
          => /\ IsPrefix(lastCall.issued, <<"kill", "detach">>)
             /\ lastCall.issued # <<>>
             /\ lastCall.outcome = "ok"
                   => /\ lastCall.issued = <<"kill", "detach">>
                      /\ proc = "killed"
                      /\ session = "detached"
    /\ session = "detached" => proc = "killed"

C13_Witness ==
    /\ lastCall.op = "terminate_process"
    /\ lastCall.outcome = "ok"
    /\ proc = "killed"
    /\ session = "detached"

QueryOps == {"enumerate_modules", "enumerate_module_ranges", "find_module_by_address",
             "find_range_by_address", "query_memory_protection"}

\* C14: every call of the five query operations issues exactly one remote
\* query, and a call that returns gives the value that query gave, unaltered.
C14_FreshQueries ==
    lastCall.op \in QueryOps
       => /\ lastCall.issued = <<lastCall.op>>
          /\ lastCall.outcome = "ok" <=> lastCall.fault = "none"
          /\ lastCall.outcome = "ok" => lastCall.ret = lastCall.remote

C14_Witness ==
    /\ lastCall.op = "enumerate_modules"
    /\ lastCall.outcome = "ok"
    /\ lastCall.issued = <<"enumerate_modules">>
    /\ lastCall.ret = <<ExeName, "kernel32.dll">>
    /\ cache.some

\* C15: the mapping a completed export enumeration returns has as keys exactly
\* the integers the addresses of the enumerated entries denote in base 16, and
\* under each key an enumerated entry whose address denotes that key; the
\* text 0x1000 gives the key 4096.
C15_AddressKeyMapping ==
    (lastCall.op = EnumOp /\ lastCall.outcome = "ok")
       => LET list == snapshot.value
              dict == lastCall.ret
          IN  /\ snapshot.some
              /\ DOMAIN dict = {HexValue(list[i].address) : i \in DOMAIN list}
              /\ \A k \in DOMAIN dict :
                    /\ HexValue(dict[k].address) = k
                    /\ \E i \in DOMAIN list : list[i] = dict[k]
              /\ (\E i \in DOMAIN list : list[i].address = Txt1000)
                    => 4096 \in DOMAIN dict /\ dict[4096].address \in {Txt1000, TxtBare1000}

C15_Witness ==
    /\ lastCall.op = EnumOp
    /\ lastCall.outcome = "ok"
    /\ snapshot.value = <<[address |-> Txt2000, name |-> "h"], [address |-> Txt1000, name |-> "f"]>>
    /\ DOMAIN lastCall.ret = {4096, 8192}
    /\ lastCall.ret[4096].name = "f"

IdentityQueries == {"get_architecture", "get_pointer_size", "get_page_size",
                    "enumerate_module_ranges"}

TimesIn(s, x) == Cardinality({i \in DOMAIN s : s[i] = x})

\* C16: the construction of a controller has made each of the four identity
\* queries once, and from then on no step changes the pid, the main module
\* name, the architecture, the pointer size, the page size or the initial
\* module ranges.
C16_IdentityImmutable ==
    /\ [](ident.constructed => \A q \in IdentityQueries : TimesIn(setupLog, q) = 1)
    /\ [][ident.constructed => ident' = ident]_vars

C16_Witness ==
    /\ ident.constructed
    /\ ident.architecture = "x64"
    /\ ident.main_module_ranges # <<>>
    /\ lastCall.op = "enumerate_module_ranges"
    /\ lastCall.outcome = "ok"
    /\ lastCall.ret # ident.main_module_ranges

\* C17: an export enumeration that fails, by a remote failure or by an address
\* that does not parse, on first population or on a forced refresh, leaves the
\* cache as it was before the call.
C17_FailedEnumerationKeepsCache ==
    [][(lastCall'.op = EnumOp /\ lastCall'.outcome # "ok")
          => /\ cache' = cache
             /\ cache'.some = lastCall'.had
             /\ lastCall'.issued = <<EnumOp>>]_vars

C17_Witness ==
    /\ lastCall.op = EnumOp
    /\ lastCall.outcome = "ValueError"
    /\ lastCall.force
    /\ lastCall.had
    /\ cache.some
    /\ DOMAIN cache.dict = {4096, 8192}

SameAddress(e1, e2) == HexValue(e1.address) = HexValue(e2.address)

\* C18: in the mapping a completed export enumeration returns, every
\* enumerated entry that no later entry shares its address with is the entry
\* of its address, and the mapping has one entry for each distinct address.
C18_LastEntryWins ==
    (lastCall.op = EnumOp /\ lastCall.outcome = "ok")
       => LET list == snapshot.value
              dict == lastCall.ret
          IN  /\ \A i \in DOMAIN list :
                    (\A j \in DOMAIN list : j > i => ~SameAddress(list[i], list[j]))
                       => dict[HexValue(list[i].address)] = list[i]
              /\ Cardinality(DOMAIN dict)
                    = Cardinality({HexValue(list[i].address) : i \in DOMAIN list})

C18_Witness ==
    /\ lastCall.op = EnumOp
    /\ lastCall.outcome = "ok"
    /\ snapshot.value = <<[address |-> Txt1000, name |-> "f"],
                          [address |-> TxtBare1000, name |-> "g"]>>
    /\ DOMAIN lastCall.ret = {4096}
    /\ lastCall.ret[4096].name = "g"

\* C19: with an agent that reports the original entry point only while the
\* target runs, every handled OEP event and every call of the OEP callback
\* finds the sink registered, the controller constructed and the tracing
\* armed.
C19_NoOepBeforeSetup ==
    (IsOepEvent(lastDisp.msg) \/ notified # <<>>)
       => /\ sink
          /\ ident.constructed
          /\ armed
          /\ resumes = 1

\* The callback has been called and spawn_and_instrument has not returned yet.
C19_Witness ==
    /\ notified # <<>>
    /\ pc = "resumed"
    /\ armed
    /\ ident.constructed

\* C20: the handling of an OEP event whose BASE or OEP field is missing or is
\* not hexadecimal text ends in an error and calls the OEP callback not once.
C20_NoPartialPair ==
    (IsOepEvent(lastDisp.msg) /\ ~WellFormedOep(lastDisp.msg))
       => /\ lastDisp.calls = <<>>
          /\ lastDisp.outcome \in {"KeyError", "ValueError"}
          /\ Len(notified) = Len(decodable)

C20_Witness ==
    /\ lastDisp.msg = [type |-> "send", payload |-> [event |-> "oep_reached", OEP |-> TxtOep]]
    /\ lastDisp.outcome = "KeyError"
    /\ lastDisp.calls = <<>>
    /\ Len(notified) = 1
====
